---- MODULE Spec2Model ----
(***************************************************************************)
(* Model of src/lambda/app.py: the request handler of the daily fitness    *)
(* tracker.  One table of day-keyed records, one synchronous handler.     *)
(*                                                                         *)
(* Text that the program parses (dates, numeric fields) is a sequence of   *)
(* one-character strings, so that parsing, stripping and the store's       *)
(* lexicographic key comparison are computed and not assumed.              *)
(* Minutes are carried in hundredths of a minute (2.0 min = 200) on input  *)
(* and in tenths of a minute (2.0 min = 20) on output.                     *)
(***************************************************************************)
EXTENDS Integers, Sequences, FiniteSets, TLC

(***************************************************************************)
(* Python dictionaries: functions with a finite domain of keys.            *)
(***************************************************************************)
EmptyDict == [k \in {} |-> <<>>]

DictGet(dct, k, dflt) == IF k \in DOMAIN dct THEN dct[k] ELSE dflt

(***************************************************************************)
(* Text                                                                    *)
(***************************************************************************)
Digits == <<"0", "1", "2", "3", "4", "5", "6", "7", "8", "9">>

DigitSet == {Digits[i] : i \in 1..10}

DigitOf == [c \in DigitSet |-> (CHOOSE i \in 1..10 : Digits[i] = c) - 1]

IsDigit(c) == c \in DigitSet

DigitVal(c) == DigitOf[c]

\* the code point of each character the model's texts use, as the store
\* compares key bytes
CodePoint ==
    [c \in DigitSet |-> 48 + DigitOf[c]]
    @@ [c \in {" "} |-> 32] @@ [c \in {"+"} |-> 43] @@ [c \in {"-"} |-> 45]
    @@ [c \in {"."} |-> 46] @@ [c \in {"N"} |-> 78] @@ [c \in {"a"} |-> 97]
    @@ [c \in {"b"} |-> 98] @@ [c \in {"c"} |-> 99] @@ [c \in {"e"} |-> 101]
    @@ [c \in {"n"} |-> 110] @@ [c \in {"o"} |-> 111] @@ [c \in {"x"} |-> 120]

Ord(c) == CodePoint[c]

\* a < b from position i on, the texts equal before it
RECURSIVE StrLessFrom(_, _, _)
StrLessFrom(a, b, i) ==
    IF i > Len(a) THEN i <= Len(b)
    ELSE IF i > Len(b) THEN FALSE
    ELSE IF a[i] # b[i] THEN Ord(a[i]) < Ord(b[i])
    ELSE StrLessFrom(a, b, i + 1)

\* a < b, by code points
StrLess(a, b) == StrLessFrom(a, b, 1)

RECURSIVE LStrip(_)
LStrip(s) == IF s # <<>> /\ Head(s) = " " THEN LStrip(Tail(s)) ELSE s

RECURSIVE RStrip(_)
RStrip(s) ==
    IF s # <<>> /\ s[Len(s)] = " " THEN RStrip(SubSeq(s, 1, Len(s) - 1)) ELSE s

\* str.strip()
Strip(s) == RStrip(LStrip(s))

AllDigits(s) == s # <<>> /\ \A i \in 1..Len(s) : IsDigit(s[i])

\* the number the first n digits of s write
RECURSIVE NatUpTo(_, _)
NatUpTo(s, n) == IF n = 0 THEN 0 ELSE 10 * NatUpTo(s, n - 1) + DigitVal(s[n])

NatOf(s) == NatUpTo(s, Len(s))

\* position of the first c in s, 0 when there is none
IndexOf(s, c) ==
    IF \E i \in 1..Len(s) : s[i] = c
    THEN CHOOSE i \in 1..Len(s) : s[i] = c /\ \A j \in 1..(i - 1) : s[j] # c
    ELSE 0

(***************************************************************************)
(* Calendar (datetime.date)                                                *)
(***************************************************************************)
IsLeap(y) == (y % 4 = 0 /\ y % 100 # 0) \/ y % 400 = 0

MonthLen(y, m) ==
    IF m = 2 THEN (IF IsLeap(y) THEN 29 ELSE 28)
    ELSE IF m \in {4, 6, 9, 11} THEN 30 ELSE 31

Date(y, m, d) == [y |-> y, m |-> m, d |-> d]

NoDate == [y |-> 0, m |-> 0, d |-> 0]

ValidDate(y, m, d) ==
    /\ y \in 1..9999
    /\ m \in 1..12
    /\ d \in 1..MonthLen(y, m)

\* the month field of "%Y-%m-%d": 1[0-2] | 0[1-9] | [1-9]
MonthField(s) == Len(s) \in {1, 2} /\ AllDigits(s) /\ NatOf(s) \in 1..12

\* the day field: 3[01] | [12]\d | 0[1-9] | [1-9] | " "[1-9]
DayField(s) ==
    \/ Len(s) \in {1, 2} /\ AllDigits(s) /\ NatOf(s) \in 1..31
    \/ Len(s) = 2 /\ s[1] = " " /\ IsDigit(s[2]) /\ s[2] # "0"

DayValue(s) == IF s[1] = " " THEN DigitVal(s[2]) ELSE NatOf(s)

\* datetime.strptime(s, "%Y-%m-%d").date(); NoDate stands for the ValueError
_parse_date(s) ==
    IF Len(s) < 8 \/ ~AllDigits(SubSeq(s, 1, 4)) \/ s[5] # "-" THEN NoDate
    ELSE LET rest == SubSeq(s, 6, Len(s))
             dash == IndexOf(rest, "-")
         IN IF dash < 2 \/ dash = Len(rest) THEN NoDate
            ELSE LET mf == SubSeq(rest, 1, dash - 1)
                     df == SubSeq(rest, dash + 1, Len(rest))
                 IN IF ~MonthField(mf) \/ ~DayField(df) THEN NoDate
                    ELSE LET y == NatOf(SubSeq(s, 1, 4))
                             m == NatOf(mf)
                             d == DayValue(df)
                         IN IF ValidDate(y, m, d) THEN Date(y, m, d) ELSE NoDate

Pad(n, w) ==
    LET ds == [i \in 1..w |-> Digits[((n \div (10 ^ (w - i))) % 10) + 1]] IN ds

\* date.isoformat()
isoformat(dt) == Pad(dt.y, 4) \o <<"-">> \o Pad(dt.m, 2) \o <<"-">> \o Pad(dt.d, 2)

DateLess(a, b) ==
    \/ a.y < b.y
    \/ a.y = b.y /\ a.m < b.m
    \/ a.y = b.y /\ a.m = b.m /\ a.d < b.d

\* d + timedelta(days=1)
NextDay(dt) ==
    IF dt.d < MonthLen(dt.y, dt.m) THEN Date(dt.y, dt.m, dt.d + 1)
    ELSE IF dt.m < 12 THEN Date(dt.y, dt.m + 1, 1)
    ELSE Date(dt.y + 1, 1, 1)

\* d - timedelta(days=1)
PrevDay(dt) ==
    IF dt.d > 1 THEN Date(dt.y, dt.m, dt.d - 1)
    ELSE IF dt.m > 1 THEN Date(dt.y, dt.m - 1, MonthLen(dt.y, dt.m - 1))
    ELSE Date(dt.y - 1, 12, 31)

\* d - timedelta(days=n)
RECURSIVE MinusDays(_, _)
MinusDays(dt, n) ==
    IF n < dt.d THEN Date(dt.y, dt.m, dt.d - n)
    ELSE MinusDays(PrevDay(Date(dt.y, dt.m, 1)), n - dt.d)

\* d + timedelta(days=n)
RECURSIVE PlusDays(_, _)
PlusDays(dt, n) ==
    IF dt.d + n <= MonthLen(dt.y, dt.m) THEN Date(dt.y, dt.m, dt.d + n)
    ELSE PlusDays(NextDay(Date(dt.y, dt.m, MonthLen(dt.y, dt.m))),
                  n - (MonthLen(dt.y, dt.m) - dt.d) - 1)

DaysBeforeYear(y) == (y - 1) * 365 + ((y - 1) \div 4) - ((y - 1) \div 100) + ((y - 1) \div 400)

RECURSIVE DaysBeforeMonth(_, _)
DaysBeforeMonth(y, m) == IF m = 1 THEN 0 ELSE DaysBeforeMonth(y, m - 1) + MonthLen(y, m - 1)

\* date.toordinal()
toordinal(dt) == DaysBeforeYear(dt.y) + DaysBeforeMonth(dt.y, dt.m) + dt.d

\* date.weekday(): Monday is 0
weekday(dt) == (toordinal(dt) + 6) % 7

(***************************************************************************)
(* Numbers                                                                 *)
(***************************************************************************)
\* int(x) of the quotient a / b: truncation toward zero
TruncDiv(a, b) == IF a >= 0 THEN a \div b ELSE -((-a) \div b)

Ok(v) == [ok |-> TRUE, v |-> v]

\* a ValueError / TypeError raised by a conversion
Err == [ok |-> FALSE, v |-> 0]

Unsigned(s) == IF s # <<>> /\ Head(s) \in {"-", "+"} THEN Tail(s) ELSE s

Sign(s) == IF s # <<>> /\ Head(s) = "-" THEN -1 ELSE 1

\* float(s) of a text, in hundredths: [sign] digits [. digits], blanks around
\* it ignored; the model carries two decimals
float_str(s) ==
    LET u == Unsigned(Strip(s))
        dot == IndexOf(u, ".")
        ip == IF dot = 0 THEN u ELSE SubSeq(u, 1, dot - 1)
        fp == IF dot = 0 THEN <<>> ELSE SubSeq(u, dot + 1, Len(u))
        f2 == SubSeq(fp \o <<"0", "0">>, 1, 2)
    IN IF /\ (ip # <<>> \/ fp # <<>>)
          /\ (ip = <<>> \/ AllDigits(ip))
          /\ (fp = <<>> \/ AllDigits(fp))
       THEN Ok(Sign(Strip(s)) * (100 * NatOf(ip) + NatOf(f2)))
       ELSE Err

\* int(s) of a text: [sign] digits, blanks around it ignored
int_str(s) ==
    LET u == Unsigned(Strip(s))
    IN IF AllDigits(u) THEN Ok(Sign(Strip(s)) * NatOf(u)) ELSE Err

\* int(round(plank_minutes * 60))
plank_seconds_rounded(h) ==
    IF h >= 0 THEN (h * 60 + 50) \div 100 ELSE -((-h * 60 + 50) \div 100)

\* int(plank_minutes * 60), the minutes in hundredths
plank_seconds_of(h) == TruncDiv(h * 60, 100)

\* the seconds s below 200 whose quotient s / 60.0 lies halfway between two
\* tenths and whose double is rounded away from zero by round(x, 1) and by
\* format(x, ".1f"); the other halfway cases (9, 15, 21, 51, ...) round
\* toward zero
TieUp == {3, 27, 33, 39, 45, 63, 81, 93, 105, 111, 141, 147, 165, 171, 177}

\* round(int(s) / 60.0, 1), in tenths of a minute
plank_minutes_of(s) ==
    LET a == IF s >= 0 THEN s ELSE -s
        q == a \div 6
        r == a % 6
        t == IF r < 3 THEN q
             ELSE IF r > 3 THEN q + 1
             ELSE IF a \in TieUp THEN q + 1 ELSE q
    IN IF s >= 0 THEN t ELSE -t

(***************************************************************************)
(* JSON values (the result of json.loads)                                  *)
(***************************************************************************)
JNum(h) == [t |-> "num", h |-> h, s |-> <<>>]

JStr(s) == [t |-> "str", h |-> 0, s |-> s]

JNull == [t |-> "null", h |-> 0, s |-> <<>>]

\* Python truth value of a JSON scalar
Truthy(v) ==
    CASE v.t = "num" -> v.h # 0
      [] v.t = "str" -> v.s # <<>>
      [] OTHER -> FALSE

\* int(v or 0)
int_or0(v) ==
    IF ~Truthy(v) THEN Ok(0)
    ELSE IF v.t = "num" THEN Ok(TruncDiv(v.h, 100))
    ELSE int_str(v.s)

\* float(v or 0), in hundredths
float_or0(v) ==
    IF ~Truthy(v) THEN Ok(0)
    ELSE IF v.t = "num" THEN Ok(v.h)
    ELSE float_str(v.s)

\* str(v) of a JSON string or null
str_of(v) == IF v.t = "str" THEN v.s ELSE <<"N", "o", "n", "e">>

(***************************************************************************)
(* The table: one item per (user_id, date); the program uses one user_id   *)
(***************************************************************************)
Item(d, pushups, pullups, dips, plank_seconds) ==
    [date |-> d, pushups |-> pushups, pullups |-> pullups, dips |-> dips,
     plank_seconds |-> plank_seconds]

NoItem == [none |-> TRUE]

\* put_item as an update: a field the new item has at zero keeps its old value
put_item_merge(tbl, item) ==
    LET old == {it \in tbl : it.date = item.date}
        keep(k) == IF item[k] = 0 /\ old # {} THEN (CHOOSE it \in old : TRUE)[k] ELSE item[k]
    IN (tbl \ old) \cup {Item(item.date, keep("pushups"), keep("pullups"), keep("dips"),
                              keep("plank_seconds"))}

\* table.put_item: replaces the whole item stored under the key
put_item(tbl, item) == {it \in tbl : it.date # item.date} \cup {item}

_upsert_item(tbl, d, pushups, pullups, dips, plank_seconds) ==
    put_item(tbl, Item(d, pushups, pullups, dips, plank_seconds))

\* delete_item with the key test inverted
_delete_item_inverted(tbl, d) == {it \in tbl : it.date = d}

_delete_item(tbl, d) == {it \in tbl : it.date # d}

_get_item(tbl, d) ==
    IF \E it \in tbl : it.date = d THEN CHOOSE it \in tbl : it.date = d ELSE NoItem

\* Key("date").between(start, end): inclusive, by the bytes of the key
_query_range(tbl, start, end) ==
    {it \in tbl : ~StrLess(it.date, start) /\ ~StrLess(end, it.date)}

\* items.sort(key=lambda x: x.get("date", ""))
RECURSIVE SortByDate(_)
SortByDate(items) ==
    IF items = {} THEN <<>>
    ELSE LET lo == CHOOSE x \in items : \A y \in items : ~StrLess(y.date, x.date)
         IN <<lo>> \o SortByDate(items \ {lo})

Reverse(s) == [i \in 1..Len(s) |-> s[Len(s) + 1 - i]]

\* the attributes of an item as a query returns them
Attrs(it) ==
    [date |-> JStr(it.date), pushups |-> JNum(100 * it.pushups),
     pullups |-> JNum(100 * it.pullups), dips |-> JNum(100 * it.dips),
     plank_seconds |-> JNum(100 * it.plank_seconds)]

\* resp.get("Items", []): the items of a query, in key order
ItemList(items) == LET s == SortByDate(items) IN [i \in 1..Len(s) |-> Attrs(s[i])]

\* int(v) of an attribute
int_of(v) ==
    IF v.t = "num" THEN Ok(TruncDiv(v.h, 100))
    ELSE IF v.t = "str" THEN int_str(v.s)
    ELSE Err

\* the loop of _sum_items with the try around the whole loop: the first
\* value that does not convert ends the summing
RECURSIVE SumOf_abort(_, _)
SumOf_abort(items, k) ==
    IF items = <<>> THEN 0
    ELSE LET v == IF k \in DOMAIN Head(items) THEN int_of(Head(items)[k]) ELSE Ok(0)
         IN IF v.ok THEN v.v + SumOf_abort(Tail(items), k) ELSE 0

\* totals[k] after the loop over a list of items: int(it.get(k, 0)) added,
\* a value that does not convert passed over
RECURSIVE SumOf(_, _)
SumOf(items, k) ==
    IF items = <<>> THEN 0
    ELSE LET v == IF k \in DOMAIN Head(items) THEN int_of(Head(items)[k]) ELSE Ok(0)
         IN (IF v.ok THEN v.v ELSE 0) + SumOf(Tail(items), k)

_sum_items(items) ==
    [k \in {"plank_seconds", "pullups", "dips", "pushups"} |-> SumOf(items, k)]

(***************************************************************************)
(* Configuration read from the environment at import                       *)
(***************************************************************************)
\* os.environ.get("START_DATE", "2026-01-01")
START_DATE == <<"2", "0", "2", "6", "-", "0", "1", "-", "0", "1">>

\* the value SECRET_TOKEN has when one is configured
Secret == "s3cret"

\* the year goals
GOALS == [plank_seconds |-> 1500 * 60, pullups |-> 2000, dips |-> 5000, pushups |-> 15000]

(***************************************************************************)
(* State                                                                   *)
(***************************************************************************)
VARIABLES
    SECRET_TOKEN,   \* the configured shared secret, "" when there is none
    table,          \* the items of the table
    today,          \* the calendar date in Los Angeles
    req,            \* the event being handled, with the store's availability, the
                    \* date and the table it found
    resp,           \* what handler() returns for it; NoResp between requests
    ops,            \* the store calls handler() made for it, in order
    last,           \* history: for each date key, its latest save or delete
    call            \* a helper function called on its own: its name, its
                    \* arguments and what it returned; NoCall when none is

vars == <<SECRET_TOKEN, table, today, req, resp, ops, last, call>>

(***************************************************************************)
(* Responses                                                               *)
(***************************************************************************)
_resp(status, body, content_type) ==
    [statusCode |-> status, ctype |-> content_type, body |-> body]

_json(status, obj) == _resp(status, obj, "application/json")

Plain(status, text) == _resp(status, [text |-> text], "text/plain")

\* no response: the exception e left handler()
Raise(e) == _resp(0, [exception |-> e], "exception")

NoRow == [none |-> TRUE]

\* the row of the JSON API for an item; plank_minutes in tenths
RowOf(it) ==
    [date |-> it.date, pushups |-> it.pushups, pullups |-> it.pullups,
     dips |-> it.dips, plank_minutes |-> plank_minutes_of(it.plank_seconds)]

\* what one run of handler() leaves: the table, the response, the store calls
Out(tbl, r, o) == [table |-> tbl, resp |-> r, ops |-> o]

(***************************************************************************)
(* Request bodies                                                          *)
(***************************************************************************)
\* json.loads(body): defined when the body is JSON text
IsJson(body) == body.fmt = "json"

\* urllib.parse.parse_qs(body): the first value of each field; fields with a
\* blank value are dropped; a body without name=value pairs gives {}
parse_qs(body) ==
    IF body.fmt = "form"
    THEN [k \in {n \in DOMAIN body.form : body.form[n] # <<>>} |-> body.form[k]]
    ELSE EmptyDict

\* get_int(name) of both form routes
get_int(form, name) ==
    LET f == float_str(DictGet(form, name, <<"0">>))
    IN IF f.ok THEN TruncDiv(f.v, 100) ELSE 0

\* the plank_minutes of both form routes, in hundredths
form_plank_minutes(form) ==
    LET f == float_str(DictGet(form, "plank_minutes", <<"0">>))
    IN IF f.ok THEN f.v ELSE 0

(***************************************************************************)
(* handler(): the branches in the order of the source                      *)
(***************************************************************************)
\* _require_token comparing the token only when the request carries one
_require_token_lax(event) ==
    IF SECRET_TOKEN = "" THEN TRUE
    ELSE "token" \notin DOMAIN event.qs \/ event.qs["token"] = SECRET_TOKEN

_require_token(event) ==
    IF SECRET_TOKEN = "" THEN TRUE
    ELSE "token" \in DOMAIN event.qs /\ event.qs["token"] = SECRET_TOKEN

StartParsed == _parse_date(START_DATE)

_parse_start_date(today_d) == IF StartParsed # NoDate THEN StartParsed ELSE today_d

\* the week start taken as the Sunday on or before d
_week_start_sunday(d) == MinusDays(d, (weekday(d) + 1) % 7)

_week_start(d) == MinusDays(d, weekday(d))

\* wk_start and wk_end of the summary, as dates
week_window(today_d) ==
    [start |-> _week_start(today_d), end |-> PlusDays(_week_start(today_d), 6)]

\* (a - b).days
DaysFrom(a, b) == toordinal(a) - toordinal(b)

\* _days_in_month with the next first day left in the year of d
_days_in_month_same_year(d) ==
    LET first == Date(d.y, d.m, 1)
        next_first == IF first.m = 12 THEN Date(first.y, 1, 1)
                      ELSE Date(first.y, first.m + 1, 1)
    IN DaysFrom(next_first, first)

_days_in_month(d) ==
    LET first == Date(d.y, d.m, 1)
        next_first == IF first.m = 12 THEN Date(first.y + 1, 1, 1)
                      ELSE Date(first.y, first.m + 1, 1)
    IN DaysFrom(next_first, first)

\* _pace_metrics without the clamp for a today before the start
_pace_metrics_unclamped(all_totals, start_d, today_d) ==
    LET elapsed_days == DaysFrom(today_d, start_d) + 1
    IN [elapsed_days |-> elapsed_days,
        on_track |-> [k \in DOMAIN GOALS |-> 365 * all_totals[k] >= GOALS[k] * elapsed_days],
        remaining |-> [k \in DOMAIN GOALS |->
                         IF GOALS[k] - all_totals[k] > 0 THEN GOALS[k] - all_totals[k] ELSE 0]]

\* elapsed_days, on_track and remaining of _pace_metrics; on_track compares
\* the total with GOALS[k] * elapsed_days / 365.0, here without the division
_pace_metrics(all_totals, start_d, today_d) ==
    LET elapsed_days == IF DateLess(today_d, start_d) THEN 1
                        ELSE DaysFrom(today_d, start_d) + 1
    IN [elapsed_days |-> elapsed_days,
        on_track |-> [k \in DOMAIN GOALS |-> 365 * all_totals[k] >= GOALS[k] * elapsed_days],
        remaining |-> [k \in DOMAIN GOALS |->
                         IF GOALS[k] - all_totals[k] > 0 THEN GOALS[k] - all_totals[k] ELSE 0]]

\* the end of the range that api=data and view=csv read
ListEnd(today_d) == isoformat(today_d)

\* api=get without the check that the date parses
ApiGet_unvalidated(event, tbl, fail) ==
    LET d == Strip(DictGet(event.qs, "date", <<>>))
    IN IF d = <<>> THEN Out(tbl, _json(400, [error |-> "date required"]), <<>>)
       ELSE IF fail THEN Out(tbl, Raise("ClientError"), <<"get_item">>)
       ELSE LET item == _get_item(tbl, d)
            IN IF item = NoItem
               THEN Out(tbl, _json(200, [row |-> NoRow]), <<"get_item">>)
               ELSE Out(tbl, _json(200, [row |-> RowOf(item)]), <<"get_item">>)

ApiGet(event, tbl, fail) ==
    LET d == Strip(DictGet(event.qs, "date", <<>>))
    IN IF d = <<>> THEN Out(tbl, _json(400, [error |-> "date required"]), <<>>)
       ELSE IF _parse_date(d) = NoDate
       THEN Out(tbl, _json(400, [error |-> "invalid date"]), <<>>)
       ELSE IF fail THEN Out(tbl, Raise("ClientError"), <<"get_item">>)
       ELSE LET item == _get_item(tbl, d)
            IN IF item = NoItem
               THEN Out(tbl, _json(200, [row |-> NoRow]), <<"get_item">>)
               ELSE Out(tbl, _json(200, [row |-> RowOf(item)]), <<"get_item">>)

ApiData(event, tbl, today_d, fail) ==
    IF fail THEN Out(tbl, Raise("ClientError"), <<"query">>)
    ELSE LET items == _query_range(tbl, isoformat(_parse_start_date(today_d)),
                                   ListEnd(today_d))
             sorted == Reverse(SortByDate(items))
         IN Out(tbl, _json(200, [rows |-> [i \in 1..Len(sorted) |-> RowOf(sorted[i])]]),
                <<"query">>)

ApiUpsert(event, tbl, fail) ==
    IF ~IsJson(event.body) THEN Out(tbl, _json(400, [error |-> "Invalid JSON"]), <<>>)
    ELSE IF ~event.body.doc.isobj THEN Out(tbl, Raise("AttributeError"), <<>>)
    ELSE
      LET payload == event.body.doc.obj
          d == Strip(str_of(DictGet(payload, "date", JStr(<<>>))))
          pushups == int_or0(DictGet(payload, "pushups", JNum(0)))
          pullups == int_or0(DictGet(payload, "pullups", JNum(0)))
          dips == int_or0(DictGet(payload, "dips", JNum(0)))
          plank_minutes == float_or0(DictGet(payload, "plank_minutes", JNum(0)))
      IN IF d = <<>> THEN Out(tbl, _json(400, [error |-> "date is required"]), <<>>)
         ELSE IF _parse_date(d) = NoDate
         THEN Out(tbl, _json(400, [error |-> "invalid date format"]), <<>>)
         ELSE IF ~pushups.ok \/ ~pullups.ok \/ ~dips.ok \/ ~plank_minutes.ok
         THEN Out(tbl, Raise("ValueError"), <<>>)
         ELSE IF fail THEN Out(tbl, Raise("ClientError"), <<"put_item">>)
         ELSE Out(_upsert_item(tbl, d, pushups.v, pullups.v, dips.v,
                               plank_seconds_of(plank_minutes.v)),
                  _json(200, [ok |-> TRUE]), <<"put_item">>)

ApiDelete(event, tbl, fail) ==
    IF ~IsJson(event.body) THEN Out(tbl, _json(400, [error |-> "Invalid JSON"]), <<>>)
    ELSE IF ~event.body.doc.isobj THEN Out(tbl, Raise("AttributeError"), <<>>)
    ELSE
      LET d == Strip(str_of(DictGet(event.body.doc.obj, "date", JStr(<<>>))))
      IN IF d = <<>> THEN Out(tbl, _json(400, [error |-> "date is required"]), <<>>)
         ELSE IF fail THEN Out(tbl, Raise("ClientError"), <<"delete_item">>)
         ELSE Out(_delete_item(tbl, d), _json(200, [ok |-> TRUE]), <<"delete_item">>)

CsvExport(event, tbl, today_d, fail) ==
    IF fail THEN Out(tbl, Raise("ClientError"), <<"query">>)
    ELSE LET items == _query_range(tbl, isoformat(_parse_start_date(today_d)),
                                   ListEnd(today_d))
             sorted == SortByDate(items)
         IN Out(tbl, _resp(200, [csv |-> [i \in 1..Len(sorted) |-> RowOf(sorted[i])]],
                           "text/csv"),
                <<"query">>)

\* the guard of the form save with the method left out
IsFormSave_any_method(event) ==
    /\ DictGet(event.qs, "edit", <<>>) = <<>>
    /\ DictGet(event.qs, "api", "") = ""

\* method == "POST" and not edit_date and not api
IsFormSave(event) ==
    /\ event.method = "POST"
    /\ DictGet(event.qs, "edit", <<>>) = <<>>
    /\ DictGet(event.qs, "api", "") = ""

\* lines 1075-1176: the main page, entered with the table and the store calls
\* of the edit route before it
MainPage(event, tbl, ops0, message0, today_d, fail) ==
    LET qs == event.qs
        la_today == isoformat(today_d)
        log_q == DictGet(qs, "log_date", <<>>)
        selected0 == IF log_q # <<>> THEN log_q ELSE la_today
        prefill == _parse_date(selected0) # NoDate
        ops1 == IF prefill THEN ops0 \o <<"get_item">> ELSE ops0
        selected1 == IF prefill /\ ~fail THEN selected0 ELSE la_today
        saves == IsFormSave(event)
        form == parse_qs(event.body)
        log_f == Strip(DictGet(form, "log_date", la_today))
        log_date == IF _parse_date(log_f) # NoDate THEN log_f ELSE la_today
        tbl1 == IF saves
                THEN _upsert_item(tbl, log_date, get_int(form, "pushups"),
                                  get_int(form, "pullups"), get_int(form, "dips"),
                                  plank_seconds_of(form_plank_minutes(form)))
                ELSE tbl
        ops2 == IF saves THEN ops1 \o <<"put_item">> ELSE ops1
        message == IF saves THEN <<"Saved for", log_date>> ELSE message0
        selected == IF saves THEN log_date ELSE selected1
        wk == week_window(today_d)
        week_items == _query_range(tbl1, isoformat(wk.start), isoformat(wk.end))
        month_items == _query_range(tbl1, isoformat(Date(today_d.y, today_d.m, 1)), la_today)
        all_items == _query_range(tbl1, isoformat(_parse_start_date(today_d)), la_today)
        hist_items == _query_range(tbl1, isoformat(MinusDays(today_d, 29)), la_today)
        hist == Reverse(SortByDate(hist_items))
    IN IF fail
       THEN Out(tbl, Raise("ClientError"),
                ops1 \o (IF saves THEN <<"put_item">> ELSE <<"query">>))
       ELSE Out(tbl1,
                _resp(200,
                      [page |-> "main", message |-> message, selected_date |-> selected,
                       week_totals |-> _sum_items(ItemList(week_items)),
                       month_totals |-> _sum_items(ItemList(month_items)),
                       all_totals |-> _sum_items(ItemList(all_items)),
                       history |-> [i \in 1..Len(hist) |-> hist[i].date]],
                      "text/html"),
                ops2 \o <<"query", "query", "query", "query">>)

\* lines 1037-1073: the edit-by-date route
EditRoute(event, tbl, today_d, fail) ==
    LET edit_date == event.qs["edit"]
        form == parse_qs(event.body)
    IN IF event.method = "GET"
       THEN IF fail THEN Out(tbl, Raise("ClientError"), <<"get_item">>)
            ELSE IF _get_item(tbl, edit_date) = NoItem
            THEN Out(tbl, Plain(404, "Not found"), <<"get_item">>)
            ELSE Out(tbl, _resp(200, [page |-> "edit", edit_date |-> edit_date,
                                      item |-> _get_item(tbl, edit_date)], "text/html"),
                     <<"get_item">>)
       ELSE IF event.method = "POST"
       THEN IF fail THEN Out(tbl, Raise("ClientError"), <<"put_item">>)
            ELSE MainPage(event,
                          _upsert_item(tbl, edit_date, get_int(form, "pushups"),
                                       get_int(form, "pullups"), get_int(form, "dips"),
                                       plank_seconds_of(form_plank_minutes(form))),
                          <<"put_item">>, <<"Saved changes for", edit_date>>,
                          today_d, fail)
       ELSE Out(tbl, Plain(405, "Method not allowed"), <<>>)

handler(event, tbl, today_d, fail) ==
    LET qs == event.qs
        method == event.method
        view == DictGet(qs, "view", "")
        edit_date == DictGet(qs, "edit", <<>>)
        api == DictGet(qs, "api", "")
    IN IF ~_require_token(event)
       THEN Out(tbl, Plain(403, "Forbidden (bad token)"), <<>>)
       ELSE IF method = "GET" /\ api = "get" THEN ApiGet(event, tbl, fail)
       ELSE IF method = "GET" /\ api = "data" THEN ApiData(event, tbl, today_d, fail)
       ELSE IF method = "POST" /\ api = "upsert" THEN ApiUpsert(event, tbl, fail)
       ELSE IF method = "POST" /\ api = "delete" THEN ApiDelete(event, tbl, fail)
       ELSE IF method = "GET" /\ view = "csv" THEN CsvExport(event, tbl, today_d, fail)
       ELSE IF edit_date # <<>> THEN EditRoute(event, tbl, today_d, fail)
       ELSE MainPage(event, tbl, <<>>, <<>>, today_d, fail)

(***************************************************************************)
(* Bounds and the requests the environment sends                           *)
(***************************************************************************)
\* the table holds at most this many items
MaxItems == 2

\* the clock shows this many consecutive days, the first one FirstDay
MaxDays == 2

FirstDay == Date(2026, 1, 5)

T_0105 == <<"2", "0", "2", "6", "-", "0", "1", "-", "0", "5">>

T_0109 == <<"2", "0", "2", "6", "-", "0", "1", "-", "0", "9">>

T_1231 == <<"2", "0", "2", "5", "-", "1", "2", "-", "3", "1">>

T_unpadded == <<"2", "0", "2", "6", "-", "1", "-", "5">>

T_feb30 == <<"2", "0", "2", "6", "-", "0", "2", "-", "3", "0">>

T_spaced == <<" ">> \o T_0105 \o <<" ">>

T_blank == <<" ">>

T_x == <<"x">>

\* the metric fields of a save, as typed; a field may be left out
M_full == [pushups |-> <<"1", "0">>, pullups |-> <<"5">>, dips |-> <<"3">>,
           plank_minutes |-> <<"2", ".", "0">>]

M_part == [pushups |-> <<"1">>, plank_minutes |-> <<"0", ".", "1", "6">>]

M_text == [pushups |-> <<"a", "b", "c">>, pullups |-> <<"2">>,
           plank_minutes |-> <<"1", ".", "5">>]

M_neg == [pushups |-> <<"-", "5">>]

NoBody == [fmt |-> "empty", doc |-> [isobj |-> FALSE, obj |-> EmptyDict], form |-> EmptyDict]

TextBody == [NoBody EXCEPT !.fmt = "text"]

\* a JSON document that is not an object, such as [1]
ArrayBody == [NoBody EXCEPT !.fmt = "json"]

\* the JSON value a client sends for a typed field: a number when it is one
JVal(text) == IF float_str(text).ok THEN JNum(float_str(text).v) ELSE JStr(text)

ObjBody(obj) == [fmt |-> "json", doc |-> [isobj |-> TRUE, obj |-> obj], form |-> EmptyDict]

JsonFields(m) == [k \in DOMAIN m |-> JVal(m[k])]

FormBody(form) == [fmt |-> "form", doc |-> [isobj |-> FALSE, obj |-> EmptyDict], form |-> form]

\* the query string: a parameter with an empty value is left out
Qs(token, api, view, edit, date, log_date) ==
    (IF token # "" THEN [token |-> token] ELSE EmptyDict)
    @@ (IF api # "" THEN [api |-> api] ELSE EmptyDict)
    @@ (IF view # "" THEN [view |-> view] ELSE EmptyDict)
    @@ (IF edit # <<>> THEN [edit |-> edit] ELSE EmptyDict)
    @@ (IF date # <<>> THEN [date |-> date] ELSE EmptyDict)
    @@ (IF log_date # <<>> THEN [log_date |-> log_date] ELSE EmptyDict)

Event(method, qs, body) == [method |-> method, qs |-> qs, body |-> body]

GetDates == {<<>>, T_blank, T_x, T_feb30, T_0105, T_spaced, T_unpadded, T_0109, T_1231}

UpsertBodies ==
    {TextBody, ArrayBody, ObjBody(JsonFields(M_full)),
     ObjBody(JsonFields(M_full) @@ [date |-> JStr(<<>>)]),
     ObjBody([date |-> JNull])}
    \cup {ObjBody(JsonFields(M_full) @@ [date |-> JStr(d)]) :
            d \in {T_x, T_feb30, T_spaced, T_unpadded}}
    \cup {ObjBody(JsonFields(m) @@ [date |-> JStr(d)]) :
            m \in {M_full, M_part}, d \in {T_0105, T_0109, T_1231}}
    \cup {ObjBody(JsonFields(m) @@ [date |-> JStr(T_0105)]) : m \in {M_text, M_neg}}

DeleteBodies ==
    {TextBody, ArrayBody, ObjBody(EmptyDict), ObjBody([date |-> JStr(<<>>)])}
    \cup {ObjBody([date |-> JStr(d)]) : d \in {T_0105, T_0109, T_spaced, T_x}}

MainForms ==
    {NoBody, FormBody(M_part), FormBody(M_full @@ [log_date |-> T_0109]),
     FormBody(M_text @@ [log_date |-> T_x]), FormBody(M_part @@ [log_date |-> T_unpadded])}

\* requests whose parameters name more than one route, or a route and a
\* method it does not serve
MixedEventsWith(t) ==
    {Event("GET", Qs(t, "", "csv", T_0105, <<>>, <<>>), NoBody),
     Event("GET", Qs(t, "get", "csv", <<>>, T_0105, <<>>), NoBody),
     Event("GET", Qs(t, "data", "csv", T_0105, <<>>, <<>>), NoBody),
     Event("GET", Qs(t, "upsert", "", <<>>, <<>>, T_0109), NoBody),
     Event("POST", Qs(t, "upsert", "csv", T_0105, <<>>, <<>>),
           ObjBody(JsonFields(M_part) @@ [date |-> JStr(T_0109)])),
     Event("POST", Qs(t, "delete", "", T_0105, <<>>, <<>>), ObjBody([date |-> JStr(T_0109)])),
     Event("POST", Qs(t, "get", "", <<>>, T_0105, <<>>), FormBody(M_part)),
     Event("POST", Qs(t, "", "csv", <<>>, <<>>, <<>>), FormBody(M_part))}

\* the requests of Spec, sent with the token t
EventsWith(t) ==
    {Event("GET", Qs(t, "get", "", <<>>, d, <<>>), NoBody) : d \in GetDates}
    \cup {Event("GET", Qs(t, "data", "", <<>>, <<>>, <<>>), NoBody),
          Event("GET", Qs(t, "", "csv", <<>>, <<>>, <<>>), NoBody)}
    \cup {Event("POST", Qs(t, "upsert", "", <<>>, <<>>, <<>>), b) : b \in UpsertBodies}
    \cup {Event("POST", Qs(t, "delete", "", <<>>, <<>>, <<>>), b) : b \in DeleteBodies}
    \cup {Event("GET", Qs(t, "", "", e, <<>>, <<>>), NoBody) : e \in {T_0105, T_x}}
    \cup {Event("PUT", Qs(t, "", "", T_0105, <<>>, <<>>), NoBody)}
    \cup {Event("POST", Qs(t, "", "", e, <<>>, <<>>), FormBody(m)) :
            e \in {T_0105, T_x}, m \in {M_text, M_neg}}
    \cup {Event("GET", Qs(t, "", "", <<>>, <<>>, d), NoBody) : d \in {<<>>, T_0109, T_x}}
    \cup {Event("POST", Qs(t, "", "", <<>>, <<>>, <<>>), b) : b \in MainForms}
    \cup MixedEventsWith(t)

\* with no secret configured a token is sent to no effect
Events ==
    EventsWith("") \cup {Event("GET", Qs(Secret, "", "", <<>>, T_0105, T_0109), NoBody)}

\* one request of each route, sent with no token, a wrong one and the right one
EnvEventsWith(t) ==
    {Event("GET", Qs(t, "get", "", <<>>, T_0105, <<>>), NoBody),
     Event("GET", Qs(t, "data", "", <<>>, <<>>, <<>>), NoBody),
     Event("GET", Qs(t, "", "csv", <<>>, <<>>, <<>>), NoBody),
     Event("POST", Qs(t, "upsert", "", <<>>, <<>>, <<>>),
           ObjBody(JsonFields(M_full) @@ [date |-> JStr(T_0105)])),
     Event("POST", Qs(t, "upsert", "", <<>>, <<>>, <<>>),
           ObjBody(JsonFields(M_text) @@ [date |-> JStr(T_0109)])),
     Event("POST", Qs(t, "delete", "", <<>>, <<>>, <<>>), ObjBody([date |-> JStr(T_0105)])),
     Event("POST", Qs(t, "delete", "", <<>>, <<>>, <<>>), ArrayBody),
     Event("GET", Qs(t, "", "", T_0105, <<>>, <<>>), NoBody),
     Event("PUT", Qs(t, "", "", T_0105, <<>>, <<>>), NoBody),
     Event("POST", Qs(t, "", "", T_x, <<>>, <<>>), FormBody(M_neg)),
     Event("GET", Qs(t, "", "", <<>>, <<>>, T_0109), NoBody),
     Event("POST", Qs(t, "", "", <<>>, <<>>, <<>>), FormBody(M_part))}

EnvEvents == UNION {EnvEventsWith(t) : t \in {"", Secret, "wrong"}}

(***************************************************************************)
(* What a save gave, read off the request: the vocabulary of the claims    *)
(***************************************************************************)
Api(e) == DictGet(e.qs, "api", "")

IsJsonUpsert(e) == e.method = "POST" /\ Api(e) = "upsert"

IsJsonDelete(e) == e.method = "POST" /\ Api(e) = "delete"

EditOf(e) == DictGet(e.qs, "edit", <<>>)

IsEditPost(e) == e.method = "POST" /\ Api(e) \notin {"upsert", "delete"} /\ EditOf(e) # <<>>

IsMainPost(e) == e.method = "POST" /\ Api(e) = "" /\ EditOf(e) = <<>>

IsApiGet(e) == e.method = "GET" /\ Api(e) = "get"

IsApiData(e) == e.method = "GET" /\ Api(e) = "data"

IsCsv(e) == e.method = "GET" /\ Api(e) \notin {"get", "data"} /\ DictGet(e.qs, "view", "") = "csv"

\* the date parameter of api=get, stripped
DateParam(e) == Strip(DictGet(e.qs, "date", <<>>))

IsSave(e) == IsJsonUpsert(e) \/ IsEditPost(e) \/ IsMainPost(e)

MetricNames == {"pushups", "pullups", "dips", "plank_minutes"}

\* the date text a JSON body carries, <<>> when it carries none
BodyDate(e) ==
    IF e.body.fmt = "json" /\ e.body.doc.isobj /\ "date" \in DOMAIN e.body.doc.obj
    THEN Strip(str_of(e.body.doc.obj["date"]))
    ELSE <<>>

\* the date key a save is for
SaveKey(e, today_d) ==
    IF IsJsonUpsert(e) THEN BodyDate(e)
    ELSE IF IsEditPost(e) THEN EditOf(e)
    ELSE LET f == parse_qs(e.body)
             d == IF "log_date" \in DOMAIN f THEN Strip(f["log_date"]) ELSE <<>>
         IN IF _parse_date(d) # NoDate THEN d ELSE isoformat(today_d)

\* the number a save supplies for a field, in hundredths; 0 when it supplies
\* none or, on a form, no number
Given(e, k) ==
    IF IsJsonUpsert(e)
    THEN IF k \in DOMAIN e.body.doc.obj THEN float_or0(e.body.doc.obj[k]).v ELSE 0
    ELSE LET f == parse_qs(e.body)
         IN IF k \in DOMAIN f /\ float_str(f[k]).ok THEN float_str(f[k]).v ELSE 0

GivenAll(e) == [k \in MetricNames |-> Given(e, k)]

(***************************************************************************)
(* The state machine                                                       *)
(***************************************************************************)
NoResp == _resp(0, [none |-> TRUE], "none")

NoCall == [fn |-> "none", in |-> <<>>, out |-> <<>>]

NoReq ==
    [event |-> Event("GET", EmptyDict, NoBody), fail |-> FALSE, today |-> FirstDay,
     before |-> {}]

InitWith(secrets) ==
    /\ SECRET_TOKEN \in secrets
    /\ table = {}
    /\ today = FirstDay
    /\ req = NoReq
    /\ resp = NoResp
    /\ ops = <<>>
    /\ last = EmptyDict
    /\ call = NoCall

SaveRoute(e) ==
    IF IsJsonUpsert(e) THEN "upsert" ELSE IF IsEditPost(e) THEN "edit" ELSE "form"

Deleted == [src |-> "deleted", given |-> [k \in MetricNames |-> 0]]

\* the date keys with a save that no delete followed
Live(h) == {d \in DOMAIN h : h[d].src # "deleted"}

\* the history after a request: a save that returned 200 replaces the entry
\* of its date key, a delete that returned 200 marks its key deleted
LastAfter(event, today_d, out) ==
    IF out.resp.statusCode # 200 THEN last
    ELSE IF IsSave(event)
    THEN LET k == SaveKey(event, today_d)
         IN [d \in DOMAIN last \cup {k} |->
               IF d = k THEN [src |-> SaveRoute(event), given |-> GivenAll(event)]
               ELSE last[d]]
    ELSE IF IsJsonDelete(event)
    THEN [d \in DOMAIN last \cup {BodyDate(event)} |->
            IF d = BodyDate(event) THEN Deleted ELSE last[d]]
    ELSE last

\* one invocation of handler(event, context), start to finish; fail: the
\* store is unavailable
Handle(events, fails) ==
    /\ resp = NoResp
    /\ \E event \in events, fail \in fails :
        \E out \in {handler(event, table, today, fail)} :
           /\ Cardinality(out.table) <= MaxItems
           /\ table' = out.table
           /\ resp' = out.resp
           /\ ops' = out.ops
           /\ req' = [event |-> event, fail |-> fail, today |-> today, before |-> table]
           /\ last' = LastAfter(event, today, out)
           /\ UNCHANGED <<SECRET_TOKEN, today, call>>

\* the invocation is over: its event and response are gone, the table stays
Return ==
    /\ resp # NoResp
    /\ req' = NoReq
    /\ resp' = NoResp
    /\ ops' = <<>>
    /\ UNCHANGED <<SECRET_TOKEN, table, today, last, call>>

\* midnight in Los Angeles, between two requests
Tick ==
    /\ resp = NoResp
    /\ today # PlusDays(FirstDay, MaxDays - 1)
    /\ today' = NextDay(today)
    /\ UNCHANGED <<SECRET_TOKEN, table, req, resp, ops, last, call>>

\* no secret configured (the default), the store available
Init == InitWith({""})

Request == Handle(Events, {FALSE})

Next == Request \/ Return \/ Tick

Spec == Init /\ [][Next]_vars

\* with or without a secret, the store available or not
InitEnv == InitWith({"", Secret})

EnvRequest == Handle(EnvEvents, BOOLEAN)

NextEnv == EnvRequest \/ Return \/ Tick

SpecEnv == InitEnv /\ [][NextEnv]_vars

(***************************************************************************)
(* Properties                                                              *)
(***************************************************************************)
\* a request has been handled
Handled == resp.ctype # "none"

ItemAt(tbl, d) == CHOOSE it \in tbl : it.date = d

HasItem(tbl, d) == \E it \in tbl : it.date = d

OkResp == _json(200, [ok |-> TRUE])

NullRow == _json(200, [row |-> NoRow])

\* s is the quotient num / den with its fraction dropped
IsTruncation(s, num, den) ==
    IF num >= 0 THEN den * s <= num /\ num < den * (s + 1)
    ELSE den * (s - 1) < num /\ num <= den * s

\* t tenths of a minute is s seconds to the nearest tenth
IsNearestTenth(t, s) == 6 * t - 3 <= s /\ s <= 6 * t + 3

\* C1: with a secret configured, a request whose token is absent or differs
\* from it is answered 403 and makes no store call and no change to the
\* table; with no secret configured no request is answered 403.
C1_TokenGate ==
    /\ (/\ Handled
        /\ SECRET_TOKEN # ""
        /\ DictGet(req.event.qs, "token", "") # SECRET_TOKEN)
       => (resp.statusCode = 403 /\ ops = <<>> /\ table = req.before)
    /\ SECRET_TOKEN = "" => resp.statusCode # 403

\* a delete with a wrong token, refused while the table holds a record
C1_Witness ==
    /\ SECRET_TOKEN # ""
    /\ IsJsonDelete(req.event)
    /\ DictGet(req.event.qs, "token", "") = "wrong"
    /\ resp.statusCode = 403
    /\ table # {}

\* C2: the table holds at most one record per date key; the keys are those
\* saved and not deleted since; each record holds what the latest save for
\* its key gave, and zero for every field that save did not give.
C2_LatestSaveWins ==
    /\ \A a, b \in table : a.date = b.date => a = b
    /\ {it.date : it \in table} = Live(last)
    /\ \A it \in table :
         LET g == last[it.date].given
         IN /\ IsTruncation(it.pushups, g.pushups, 100)
            /\ IsTruncation(it.pullups, g.pullups, 100)
            /\ IsTruncation(it.dips, g.dips, 100)
            /\ IsTruncation(it.plank_seconds, 60 * g.plank_minutes, 100)

\* a save that gave pushups only has overwritten a record that had pull-ups
C2_Witness ==
    /\ Cardinality(table) = 2
    /\ IsSave(req.event)
    /\ \E it \in table, old \in req.before :
         /\ old.date = it.date
         /\ old.pullups = 5
         /\ last[it.date].given.pushups = 100
         /\ last[it.date].given.pullups = 0
         /\ it.pushups = 1 /\ it.pullups = 0 /\ it.dips = 0

\* C3: while the latest save for a date is a JSON upsert of integer counts and
\* m minutes, api=get for that date returns the date, the same counts, and
\* plank_minutes the nearest tenth of s / 60, s being m * 60 with its fraction
\* dropped; (10, 5, 3, 2.0) gives 120 seconds and 2.0 minutes.
C3_RoundTrip ==
    (/\ Handled
     /\ IsApiGet(req.event)
     /\ DateParam(req.event) \in Live(last)
     /\ last[DateParam(req.event)].src = "upsert"
     /\ \A k \in {"pushups", "pullups", "dips"} :
          last[DateParam(req.event)].given[k] % 100 = 0)
    => LET d == DateParam(req.event)
           g == last[d].given
       IN /\ resp.statusCode = 200
          /\ resp.body.row # NoRow
          /\ resp.body.row.date = d
          /\ 100 * resp.body.row.pushups = g.pushups
          /\ 100 * resp.body.row.pullups = g.pullups
          /\ 100 * resp.body.row.dips = g.dips
          /\ \E it \in table :
               /\ it.date = d
               /\ IsTruncation(it.plank_seconds, 60 * g.plank_minutes, 100)
               /\ IsNearestTenth(resp.body.row.plank_minutes, it.plank_seconds)
               /\ g = [pushups |-> 1000, pullups |-> 500, dips |-> 300,
                       plank_minutes |-> 200]
                  => (it.plank_seconds = 120 /\ resp.body.row.plank_minutes = 20)

\* 0.16 minutes saved by JSON and read back: 9 seconds, 0.1 minutes
C3_Witness ==
    /\ IsApiGet(req.event)
    /\ resp.statusCode = 200
    /\ DateParam(req.event) \in Live(last)
    /\ last[DateParam(req.event)].src = "upsert"
    /\ last[DateParam(req.event)].given.plank_minutes = 16
    /\ resp.body.row # NoRow
    /\ resp.body.row.plank_minutes = 1

C5_NoExceptionEscapes ==
    Handled =>
        /\ resp.ctype # "exception"
        /\ (req.fail /\ ops # <<>>) => (resp.statusCode = 500 /\ resp.ctype = "text/plain")

\* C6: api=upsert answers 400 and changes nothing when the body is not JSON,
\* has no date, or has a date that does not parse; for every other body it
\* writes the record of that date and answers {"ok": true}.
C6_UpsertStatus ==
    (Handled /\ IsJsonUpsert(req.event))
    => IF \/ ~IsJson(req.event.body)
          \/ BodyDate(req.event) = <<>>
          \/ _parse_date(BodyDate(req.event)) = NoDate
       THEN resp.statusCode = 400 /\ table = req.before
       ELSE resp = OkResp /\ HasItem(table, BodyDate(req.event))

\* C7: api=get answers 400 when the date is missing or blank, 400 when it
\* does not parse, and {"row": null} when it parses and the table has no
\* record under it; the table is unchanged in every case.
C7_GetErrors ==
    (Handled /\ IsApiGet(req.event))
    => LET d == DateParam(req.event)
       IN /\ table = req.before
          /\ d = <<>> => resp.statusCode = 400
          /\ (d # <<>> /\ _parse_date(d) = NoDate) => resp.statusCode = 400
          /\ (_parse_date(d) # NoDate /\ ~HasItem(req.before, d)) => resp = NullRow

\* a date that parses, not in a table that holds other records
C7_Witness ==
    /\ IsApiGet(req.event)
    /\ _parse_date(DateParam(req.event)) # NoDate
    /\ ~HasItem(table, DateParam(req.event))
    /\ table # {}
    /\ resp = NullRow

\* the far-future end of the listing the claim describes
FarFuture == <<"9", "9", "9", "9", "-", "1", "2", "-", "3", "1">>

Listed(rows) == {rows[i].date : i \in DOMAIN rows}

\* C8: api=data and view=csv each return a row for every record from the
\* start date to a far-future end, records dated after today included; the
\* CSV rows ascend by date.
C8_ListsThroughFarFuture ==
    /\ (Handled /\ IsApiData(req.event) /\ resp.statusCode = 200)
       => \A it \in _query_range(table, isoformat(StartParsed), FarFuture) :
            it.date \in Listed(resp.body.rows)
    /\ (Handled /\ IsCsv(req.event) /\ resp.statusCode = 200)
       => /\ \A it \in _query_range(table, isoformat(StartParsed), FarFuture) :
               it.date \in Listed(resp.body.csv)
          /\ \A i, j \in DOMAIN resp.body.csv :
               i < j => StrLess(resp.body.csv[i].date, resp.body.csv[j].date)

\* a save whose date and body are in order: every form, and a JSON object
\* with a date that parses
WellFormedSave(e) ==
    IsJsonUpsert(e)
    => (IsJson(e.body) /\ e.body.doc.isobj /\ _parse_date(BodyDate(e)) # NoDate)

\* the save gives field k a text that is no number
NonNumeric(e, k) ==
    IF IsJsonUpsert(e)
    THEN /\ k \in DOMAIN e.body.doc.obj
         /\ e.body.doc.obj[k].t = "str"
         /\ e.body.doc.obj[k].s # <<>>
         /\ ~float_str(e.body.doc.obj[k].s).ok
    ELSE k \in DOMAIN parse_qs(e.body) /\ ~float_str(parse_qs(e.body)[k]).ok

\* C9: on every save route a metric field that is no number is stored as
\* zero, the other fields are stored as given, and the request succeeds.
C9_TolerantFields ==
    (/\ Handled
     /\ IsSave(req.event)
     /\ WellFormedSave(req.event)
     /\ \E k \in MetricNames : NonNumeric(req.event, k))
    => /\ resp.statusCode = 200
       /\ \E it \in table :
            /\ it.date = SaveKey(req.event, req.today)
            /\ it.pushups = TruncDiv(Given(req.event, "pushups"), 100)
            /\ it.pullups = TruncDiv(Given(req.event, "pullups"), 100)
            /\ it.dips = TruncDiv(Given(req.event, "dips"), 100)
            /\ it.plank_seconds = TruncDiv(60 * Given(req.event, "plank_minutes"), 100)

\* the text is a date written YYYY-MM-DD
IsIsoDate(d) == _parse_date(d) # NoDate /\ isoformat(_parse_date(d)) = d

\* C10: every record of the table has a YYYY-MM-DD date key and counts and
\* seconds that are not negative.
C10_RecordsConform ==
    \A it \in table :
        /\ IsIsoDate(it.date)
        /\ it.pushups >= 0 /\ it.pullups >= 0 /\ it.dips >= 0 /\ it.plank_seconds >= 0

\* _pct without the clamp to [0, 100]
_pct_unclamped(done, goal) ==
    IF goal <= 0 THEN 0
    ELSE IF done < 0 THEN -((100 * (-done) + goal \div 2) \div goal)
    ELSE (100 * done + goal \div 2) \div goal

\* max(0, min(100, int(round((done / goal) * 100)))) of two integers. round()
\* takes a quotient halfway between two integers to the even one; the double
\* (done / goal) * 100 is halfway exactly when 200 * done / goal is an odd
\* integer k, except that it lies above the half for k = 109 and below it
\* for k = 115
_pct(done, goal) ==
    IF goal <= 0 THEN 0
    ELSE IF done < 0 THEN 0
    ELSE LET q == (100 * done) \div goal
             r == (100 * done) % goal
             n == IF 2 * r < goal THEN q
                  ELSE IF 2 * r > goal THEN q + 1
                  ELSE IF 2 * q + 1 = 109 THEN q + 1
                  ELSE IF 2 * q + 1 = 115 THEN q
                  ELSE IF q % 2 = 0 THEN q ELSE q + 1
         IN IF n > 100 THEN 100 ELSE n

(***************************************************************************)
(* The helper functions, called on their own over ranges of arguments      *)
(***************************************************************************)
\* the rest of the state while a helper is called on its own
Quiet ==
    /\ SECRET_TOKEN = ""
    /\ table = {}
    /\ today = FirstDay
    /\ req = NoReq
    /\ resp = NoResp
    /\ ops = <<>>
    /\ last = EmptyDict

Called(fn, in, out) == [fn |-> fn, in |-> in, out |-> out]

\* _pace_metrics: the first today is PaceLead days before the start, the last
\* one PaceSpan days after it
PaceLead == 3

PaceSpan == 40

PaceStarts == {StartParsed, Date(2027, 12, 25), Date(2028, 2, 20)}

PaceTotals == {[k \in DOMAIN GOALS |-> 0], GOALS}

PaceCall(all_totals, start_d, today_d) ==
    Called("_pace_metrics",
           [all_totals |-> all_totals, start_d |-> start_d, today_d |-> today_d],
           _pace_metrics(all_totals, start_d, today_d))

PaceInit ==
    {PaceCall(t, s, MinusDays(s, PaceLead)) : t \in PaceTotals, s \in PaceStarts}

\* the same call a day later
PaceDay ==
    /\ call.fn = "_pace_metrics"
    /\ call.in.today_d # PlusDays(call.in.start_d, PaceSpan)
    /\ call' = PaceCall(call.in.all_totals, call.in.start_d, NextDay(call.in.today_d))
    /\ UNCHANGED <<SECRET_TOKEN, table, today, req, resp, ops, last>>

\* _pct: done runs from PctMargin below zero to PctMargin above the goal
PctMargin == 3

PctGoals == {-8, 0, 8, 40, 200, GOALS.pullups}

PctCall(done, goal) == Called("_pct", [done |-> done, goal |-> goal], _pct(done, goal))

PctInit == {PctCall(-PctMargin, g) : g \in PctGoals}

\* the same goal with one more done
PctStep ==
    /\ call.fn = "_pct"
    /\ call.in.done < (IF call.in.goal > 0 THEN call.in.goal ELSE 0) + PctMargin
    /\ call' = PctCall(call.in.done + 1, call.in.goal)
    /\ UNCHANGED <<SECRET_TOKEN, table, today, req, resp, ops, last>>

\* _sum_items: lists of at most MaxRecs records
MaxRecs == 3

R_full ==
    [date |-> JStr(T_0105), pushups |-> JNum(1000), pullups |-> JNum(500),
     dips |-> JNum(300), plank_seconds |-> JNum(12000)]

\* no pullups and no dips
R_part == [date |-> JStr(T_0109), pushups |-> JNum(100), plank_seconds |-> JNum(900)]

\* pushups a text that is no number, dips null
R_text ==
    [date |-> JStr(T_1231), pushups |-> JStr(<<"a", "b", "c">>), pullups |-> JNum(200),
     dips |-> JNull, plank_seconds |-> JNum(9000)]

R_neg ==
    [date |-> JStr(T_x), pushups |-> JNum(-500), pullups |-> JNum(0), dips |-> JNum(0),
     plank_seconds |-> JNum(0)]

Records == {R_full, R_part, R_text, R_neg}

SumCall(items) == Called("_sum_items", items, _sum_items(items))

\* the same list with one more record
SumAppend ==
    /\ call.fn = "_sum_items"
    /\ Len(call.in) < MaxRecs
    /\ \E r \in Records : call' = SumCall(Append(call.in, r))
    /\ UNCHANGED <<SECRET_TOKEN, table, today, req, resp, ops, last>>

\* the week window: d runs over WeekSpan days from a Monday
WeekSpan == 70

Mondays == {FirstDay, Date(2027, 12, 27)}

WeekCall(monday, d) == Called("week_window", [monday |-> monday, d |-> d], week_window(d))

\* the window of the next day
WeekDay ==
    /\ call.fn = "week_window"
    /\ call.in.d # PlusDays(call.in.monday, WeekSpan)
    /\ call' = WeekCall(call.in.monday, NextDay(call.in.d))
    /\ UNCHANGED <<SECRET_TOKEN, table, today, req, resp, ops, last>>

\* _days_in_month: d runs over MonthSpan days from the start date, through
\* the end of 2028
MonthSpan == 1095

MonthCall(d) == Called("_days_in_month", d, _days_in_month(d))

\* the same call a day later
MonthDay ==
    /\ call.fn = "_days_in_month"
    /\ call.in # PlusDays(StartParsed, MonthSpan)
    /\ call' = MonthCall(NextDay(call.in))
    /\ UNCHANGED <<SECRET_TOKEN, table, today, req, resp, ops, last>>

InitPure ==
    /\ Quiet
    /\ call \in PaceInit \cup PctInit \cup {SumCall(<<>>)} \cup {WeekCall(m, m) : m \in Mondays}
               \cup {MonthCall(StartParsed)}

NextPure == PaceDay \/ PctStep \/ SumAppend \/ WeekDay \/ MonthDay

SpecPure == InitPure /\ [][NextPure]_vars

\* C11: elapsed_days is 1 for a today before the start and on the start day,
\* 10 nine days after the start, never below 1, and one more with each day
\* that passes from the start day on.
C11_ElapsedDays ==
    /\ [](call.fn = "_pace_metrics"
          => /\ call.out.elapsed_days >= 1
             /\ DateLess(call.in.today_d, call.in.start_d) => call.out.elapsed_days = 1
             /\ call.in.today_d = call.in.start_d => call.out.elapsed_days = 1
             /\ call.in.today_d = PlusDays(call.in.start_d, 9)
                => call.out.elapsed_days = 10)
    /\ [][(/\ call.fn = "_pace_metrics"
           /\ ~DateLess(call.in.today_d, call.in.start_d)
           /\ call'.in.today_d = NextDay(call.in.today_d))
          => call'.out.elapsed_days = call.out.elapsed_days + 1]_vars

\* nine days after a start of 20 February in a leap year: 29 February
C11_Witness ==
    /\ call.fn = "_pace_metrics"
    /\ call.in.start_d = Date(2028, 2, 20)
    /\ call.in.today_d = Date(2028, 2, 29)
    /\ call.out.elapsed_days = 10

\* C12: for a goal above zero the percentage is an integer from 0 to 100,
\* whatever done is, and does not fall when done grows; for a goal of zero or
\* less it is 0.
C12_Percent ==
    /\ [](call.fn = "_pct"
          => /\ call.in.goal > 0 => call.out \in 0..100
             /\ call.in.goal <= 0 => call.out = 0)
    /\ [][(/\ call.fn = "_pct"
           /\ call.in.goal > 0
           /\ call'.in.done > call.in.done)
          => call'.out >= call.out]_vars

\* more done than the goal asks for
C12_Witness ==
    /\ call.fn = "_pct"
    /\ call.in.goal = GOALS.pullups
    /\ call.in.done = GOALS.pullups + PctMargin
    /\ call.out = 100

\* what a record counts for a metric: its number, zero when it has none
Counted(it, k) == IF k \in DOMAIN it /\ it[k].t = "num" THEN it[k].h \div 100 ELSE 0

RECURSIVE SumFirst(_, _, _)
SumFirst(items, k, n) ==
    IF n = 0 THEN 0 ELSE SumFirst(items, k, n - 1) + Counted(items[n], k)

\* C13: each total is the sum of the metric over the records, a value that
\* is missing or no number counted as zero; the totals are the same for the
\* records in any order, and all zero for no records.
C13_Totals ==
    call.fn = "_sum_items"
    => /\ \A k \in DOMAIN call.out : call.out[k] = SumFirst(call.in, k, Len(call.in))
       /\ \A p \in Permutations(DOMAIN call.in) :
            _sum_items([i \in DOMAIN call.in |-> call.in[p[i]]]) = call.out
       /\ call.in = <<>> => \A k \in DOMAIN call.out : call.out[k] = 0

\* a record with a text and a null between two records with numbers
C13_Witness ==
    /\ call.fn = "_sum_items"
    /\ call.in = <<R_full, R_text, R_part>>
    /\ call.out = [pushups |-> 11, pullups |-> 7, dips |-> 3, plank_seconds |-> 219]

\* a is b or a day before it
NotAfter(a, b) == a = b \/ DateLess(a, b)

\* C14: the week start of d is a Monday with start <= d <= start + 6, the
\* week end is start + 6, a Sunday; the days from a Monday to the next Sunday
\* have that Monday as their week start, and the Monday after them is the
\* next week start.
C14_WeekWindow ==
    /\ [](call.fn = "week_window"
          => /\ weekday(call.out.start) = 0
             /\ NotAfter(call.out.start, call.in.d)
             /\ NotAfter(call.in.d, call.out.end)
             /\ call.out.end = PlusDays(call.out.start, 6)
             /\ weekday(call.out.end) = 6
             /\ call.in.d = call.in.monday => call.out.start = call.in.monday)
    /\ [][(call.fn = "week_window" /\ call'.in.d = NextDay(call.in.d))
          => IF call.in.d = call.out.end
             THEN call'.out.start = call'.in.d
             ELSE call'.out.start = call.out.start]_vars

\* Wednesday 1 March 2028: the week from Monday 28 February to Sunday 5 March
C14_Witness ==
    /\ call.fn = "week_window"
    /\ call.in.d = Date(2028, 3, 1)
    /\ call.out = [start |-> Date(2028, 2, 28), end |-> Date(2028, 3, 5)]

\* the length of month m of year y in the calendar
CalendarLength(y, m) ==
    IF m \in {1, 3, 5, 7, 8, 10, 12} THEN 31
    ELSE IF m \in {4, 6, 9, 11} THEN 30
    ELSE IF y % 4 = 0 /\ (y % 100 # 0 \/ y % 400 = 0) THEN 29
    ELSE 28

\* C15: the days in the month of d are the calendar length of that month: 31
\* in January 2026, 28 in February 2026, 29 in February 2028, 30 in April,
\* 31 in December.
C15_DaysInMonth ==
    call.fn = "_days_in_month"
    => /\ call.out = CalendarLength(call.in.y, call.in.m)
       /\ (call.in.y = 2026 /\ call.in.m = 1) => call.out = 31
       /\ (call.in.y = 2026 /\ call.in.m = 2) => call.out = 28
       /\ (call.in.y = 2028 /\ call.in.m = 2) => call.out = 29
       /\ call.in.m = 4 => call.out = 30
       /\ call.in.m = 12 => call.out = 31

\* the last day of a December: the next month is in the next year
C15_Witness ==
    /\ call.fn = "_days_in_month"
    /\ call.in = Date(2027, 12, 31)
    /\ call.out = 31

\* the branch the fixed order gives a request
Branch(e) ==
    LET view == DictGet(e.qs, "view", "")
    IN IF e.method = "GET" /\ Api(e) = "get" THEN "get"
       ELSE IF e.method = "GET" /\ Api(e) = "data" THEN "data"
       ELSE IF e.method = "POST" /\ Api(e) = "upsert" THEN "upsert"
       ELSE IF e.method = "POST" /\ Api(e) = "delete" THEN "delete"
       ELSE IF e.method = "GET" /\ view = "csv" THEN "csv"
       ELSE IF EditOf(e) # <<>> THEN "edit"
       ELSE "page"

IsError(r, texts) == r.statusCode = 400 /\ "error" \in DOMAIN r.body /\ r.body.error \in texts

IsPage(r) == r.ctype = "text/html" /\ r.body.page = "main"

\* the response r, made with the store calls o, is one that branch b gives to e
Answers(b, e, r, o) ==
    CASE b = "get" ->
           \/ r.statusCode = 200 /\ "row" \in DOMAIN r.body
           \/ IsError(r, {"date required", "invalid date"})
      [] b = "data" -> r.statusCode = 200 /\ "rows" \in DOMAIN r.body
      [] b = "upsert" ->
           \/ r = OkResp /\ o = <<"put_item">>
           \/ IsError(r, {"Invalid JSON", "date is required", "invalid date format"})
      [] b = "delete" ->
           \/ r = OkResp /\ o = <<"delete_item">>
           \/ IsError(r, {"Invalid JSON", "date is required"})
      [] b = "csv" -> r.statusCode = 200 /\ r.ctype = "text/csv"
      [] b = "edit" ->
           IF e.method = "GET"
           THEN \/ r.statusCode = 404
                \/ r.statusCode = 200 /\ r.ctype = "text/html" /\ r.body.page = "edit"
           ELSE IF e.method = "POST"
           THEN IsPage(r) /\ r.body.message = <<"Saved changes for", EditOf(e)>>
           ELSE r.statusCode = 405
      [] OTHER ->
           /\ IsPage(r)
           /\ ("put_item" \in {o[i] : i \in DOMAIN o}) <=> IsMainPost(e)
           /\ r.body.message = <<>> <=> ~IsMainPost(e)

\* C16: every authorized request gets exactly one response, that of the first
\* branch that matches in the order get, data, upsert, delete, csv, edit,
\* page; the page branch saves first exactly when the request is a POST with
\* no api and no edit parameter.
C16_FirstMatch ==
    (Handled /\ _require_token(req.event))
    => /\ resp.ctype # "exception"
       /\ Answers(Branch(req.event), req.event, resp, ops)

\* the order of the branches alone, for the requests that are answered
C16_OrderWhenAnswered ==
    (Handled /\ _require_token(req.event) /\ resp.ctype # "exception")
    => Answers(Branch(req.event), req.event, resp, ops)

\* C17: a GET, whatever its parameters, leaves the table as it found it.
C17_GetReadsOnly ==
    (Handled /\ req.event.method = "GET") => table = req.before

\* a page render for a chosen log_date, sent with a token and a stray date
\* parameter, over a table that holds records
C17_Witness ==
    /\ req.event.method = "GET"
    /\ DOMAIN req.event.qs = {"token", "date", "log_date"}
    /\ IsPage(resp)
    /\ Cardinality(table) = 2

\* the save of a form POST is for a date from the start date to today
SavesInRange(e, today_d) ==
    LET d == _parse_date(SaveKey(e, today_d))
    IN /\ d # NoDate
       /\ NotAfter(StartParsed, d)
       /\ NotAfter(d, today_d)

\* the all-time totals of the table before the request with the record of
\* date key k replaced by the one the table holds now
TotalsWith(before, tbl, k, today_d) ==
    LET others == _query_range({it \in before : it.date # k}, isoformat(StartParsed),
                               isoformat(today_d))
        saved == ItemAt(tbl, k)
    IN [m \in DOMAIN GOALS |-> saved[m] + _sum_items(ItemList(others))[m]]

\* C18: when a main-page form POST or a legacy edit POST saves a record for a
\* date from the start date to today, the all-time totals of its response
\* count the values just saved.
C18_ReadYourWrite ==
    (/\ Handled
     /\ IsMainPost(req.event) \/ IsEditPost(req.event)
     /\ resp.statusCode = 200
     /\ SavesInRange(req.event, req.today))
    => resp.body.all_totals
         = TotalsWith(req.before, table, SaveKey(req.event, req.today), req.today)

\* the same for the saves whose date key is written YYYY-MM-DD
C18_ReadYourWritePadded ==
    (/\ Handled
     /\ IsMainPost(req.event) \/ IsEditPost(req.event)
     /\ resp.statusCode = 200
     /\ SavesInRange(req.event, req.today)
     /\ IsIsoDate(SaveKey(req.event, req.today)))
    => resp.body.all_totals
         = TotalsWith(req.before, table, SaveKey(req.event, req.today), req.today)

NonNegative(it) ==
    it.pushups >= 0 /\ it.pullups >= 0 /\ it.dips >= 0 /\ it.plank_seconds >= 0

\* C19: on a page render over a table of non-negative values, the week total
\* and the month total of each metric are at most its all-time total.
C19_WindowsWithinAllTime ==
    (Handled /\ IsPage(resp) /\ \A it \in table : NonNegative(it))
    => \A k \in DOMAIN GOALS :
         /\ resp.body.week_totals[k] <= resp.body.all_totals[k]
         /\ resp.body.month_totals[k] <= resp.body.all_totals[k]

====
